---- MODULE Spec2Model ----
(***************************************************************************)
(* A model of the Mojo API client (package mojo): the wire encoding of a   *)
(* Contact (Contact.MarshalJSON), the transport (Mojo.post), and the       *)
(* classification of the remote answer (Mojo.AddContact, Mojo.AddNote).    *)
(*                                                                         *)
(* Go strings are TLA+ strings; \o concatenates them.  A phone number is   *)
(* kept as the sequence of its characters, because cleanPhone works on     *)
(* characters; Text turns it into a string.  A response body is kept as    *)
(* what the server wrote: either a JSON value (its syntax tree) or a text  *)
(* that is not JSON; Render gives the bytes of the body, and the Unmarshal *)
(* operators decode the tree into the Go struct the code names, with       *)
(* encoding/json's rules (null, absent keys, wrong types).                 *)
(* The strings of the model contain no character that JSON escapes.        *)
(***************************************************************************)
EXTENDS Integers, Sequences, FiniteSets, TLC

VARIABLES
    mj,        \* the client: [URL, Token, HTTP]
    pc,        \* where the caller is: "idle", "inflight", "done"; "new", "encoded";
               \* "raw", "cleaned", "recleaned"; "concurrent"
    call,      \* the operation called and its arguments
    req,       \* the request handed to the transport, or NoReq
    res,       \* the response read from the transport, or NoRes
    ret,       \* the error returned to the caller (Nil for no error)
    sent,      \* requests issued by the current call
    contact,   \* the Contact given to MarshalJSON
    enc,       \* what MarshalJSON returned: [err, wire, data]
    phone,     \* the string given to cleanPhone
    cleaned,   \* what cleanPhone returned: the results of the successive calls
    gpc,       \* concurrent calls on one client: where each goroutine is
    sawNil,    \* concurrent calls: did the goroutine find mj.HTTP nil
    via        \* concurrent calls: the handle the goroutine called Do on

vars == <<mj, pc, call, req, res, ret, sent, contact, enc, phone, cleaned, gpc, sawNil, via>>

----------------------------------------------------------------------------
(* Bounds of the model *)

MaxNotes == 2       \* longest Contact.Notes
MaxContacts == 2    \* most contacts in one AddContact call
MaxErrors == 2      \* longest "errors" / "non_field_errors" list in a response
MaxDups == 2        \* longest "duplicated_api_contact_id" list in a response
MaxPhone == 4       \* longest string given to cleanPhone
NumCalls == 2       \* calls running concurrently on one client

(* Program constants *)

StatusOK == 200
StatusBadRequest == 400
StatusForbidden == 403
DefaultTimeout == 3
TypeWork == 1
TypeMobile == 2
TypeHome == 3
TypeEmail == 4
NoteType == 1

----------------------------------------------------------------------------
(* Strings and sequences *)

SeqsUpTo(S, n) == UNION { [1..k -> S] : k \in 0..n }

Indices(s) == 1..Len(s)

Digit(d) == <<"0", "1", "2", "3", "4", "5", "6", "7", "8", "9">>[d + 1]

\* fmt's %d and encoding/json's integers, for n >= 0
RECURSIVE Itoa(_)
Itoa(n) == IF n < 10 THEN Digit(n) ELSE Itoa(n \div 10) \o Digit(n % 10)

\* the string made of the characters of a sequence
RECURSIVE Text(_)
Text(cs) == IF cs = <<>> THEN "" ELSE Head(cs) \o Text(Tail(cs))

\* strings.Join
RECURSIVE Join(_, _)
Join(ss, sep) ==
    IF ss = <<>> THEN ""
    ELSE IF Len(ss) = 1 THEN ss[1]
    ELSE ss[1] \o sep \o Join(Tail(ss), sep)

\* strings.Replace(ph, old, "", -1) for a one-character old
Remove(ph, old) == SelectSeq(ph, LAMBDA ch : ch # old)

\* a variant with a slip: the space is not removed
cleanPhoneMutant(ph) == Remove(Remove(Remove(ph, "("), ")"), "-")

cleanPhone(ph) == Remove(Remove(Remove(Remove(ph, "("), ")"), "-"), " ")

----------------------------------------------------------------------------
(* JSON values and their text *)

JNull == [t |-> "null", s |-> "", n |-> 0, a |-> <<>>]
JStr(s) == [t |-> "str", s |-> s, n |-> 0, a |-> <<>>]
JNum(n) == [t |-> "num", s |-> "", n |-> n, a |-> <<>>]
JArr(a) == [t |-> "arr", s |-> "", n |-> 0, a |-> a]
\* an object is the sequence of its members, each <<key, value>>
JObj(m) == [t |-> "obj", s |-> "", n |-> 0, a |-> m]

JStrs(ss) == JArr([i \in Indices(ss) |-> JStr(ss[i])])

Quote(s) == "\"" \o s \o "\""

RECURSIVE Render(_)
RECURSIVE RenderList(_)
RECURSIVE RenderMembers(_)
Render(v) ==
    CASE v.t = "null" -> "null"
      [] v.t = "str" -> Quote(v.s)
      [] v.t = "num" -> Itoa(v.n)
      [] v.t = "arr" -> "[" \o RenderList(v.a) \o "]"
      [] v.t = "obj" -> "{" \o RenderMembers(v.a) \o "}"
RenderList(a) ==
    IF a = <<>> THEN ""
    ELSE IF Len(a) = 1 THEN Render(a[1])
    ELSE Render(a[1]) \o "," \o RenderList(Tail(a))
RenderMembers(m) ==
    IF m = <<>> THEN ""
    ELSE IF Len(m) = 1 THEN Quote(m[1][1]) \o ":" \o Render(m[1][2])
    ELSE Quote(m[1][1]) \o ":" \o Render(m[1][2]) \o "," \o RenderMembers(Tail(m))

Keys(m) == { m[i][1] : i \in Indices(m) }
HasKey(m, k) == k \in Keys(m)
\* the value of a key the object has (the last one wins, as in encoding/json)
Field(m, k) == m[CHOOSE i \in Indices(m) : m[i][1] = k /\ \A j \in Indices(m) : m[j][1] = k => j <= i][2]

----------------------------------------------------------------------------
(* Contact and its wire encoding *)

Contact(id, gid, name, address, city, state, zip, email, mobile, work, home, notes) ==
    [ID |-> id, GroupID |-> gid, Name |-> name, Address |-> address, City |-> city,
     State |-> state, Zip |-> zip, Email |-> email, MobilePhone |-> mobile,
     WorkPhone |-> work, HomePhone |-> home, Notes |-> notes]

media(type, value) == [Type |-> type, Value |-> value]
note(type, contents) == [Type |-> type, Contents |-> contents]

\* a variant with a slip: the mobile phone is appended before the work phone
MediaOfMutant(c) ==
    (IF c.MobilePhone # <<>> THEN <<media(TypeMobile, Text(cleanPhone(c.MobilePhone)))>> ELSE <<>>)
    \o (IF c.WorkPhone # <<>> THEN <<media(TypeWork, Text(cleanPhone(c.WorkPhone)))>> ELSE <<>>)
    \o (IF c.HomePhone # <<>> THEN <<media(TypeHome, Text(cleanPhone(c.HomePhone)))>> ELSE <<>>)
    \o (IF c.Email # "" THEN <<media(TypeEmail, c.Email)>> ELSE <<>>)

\* the four appends of MarshalJSON, in the order the code makes them
MediaOf(c) ==
    (IF c.WorkPhone # <<>> THEN <<media(TypeWork, Text(cleanPhone(c.WorkPhone)))>> ELSE <<>>)
    \o (IF c.MobilePhone # <<>> THEN <<media(TypeMobile, Text(cleanPhone(c.MobilePhone)))>> ELSE <<>>)
    \o (IF c.HomePhone # <<>> THEN <<media(TypeHome, Text(cleanPhone(c.HomePhone)))>> ELSE <<>>)
    \o (IF c.Email # "" THEN <<media(TypeEmail, c.Email)>> ELSE <<>>)

NotesOf(c) == [i \in Indices(c.Notes) |-> note(NoteType, c.Notes[i])]

\* the struct MarshalJSON fills in
wireContact(c) ==
    [ID |-> c.ID, Name |-> c.Name, Group |-> <<c.GroupID>>,
     Address |-> c.Address, City |-> c.City, State |-> c.State, Zip |-> c.Zip,
     Notes |-> NotesOf(c), Media |-> MediaOf(c)]

OmitEmptyStr(key, s) == IF s = "" THEN <<>> ELSE << <<key, JStr(s)>> >>
OmitEmptyArr(key, a) == IF a = <<>> THEN <<>> ELSE << <<key, JArr(a)>> >>

\* a variant with a slip: the address tag lacks omitempty
MarshalContactMutant(cc) ==
    << <<"api_contact_id", JStr(cc.ID)>>,
       <<"full_name", JStr(cc.Name)>>,
       <<"contactgroup_set",
         JArr([i \in Indices(cc.Group) |-> JObj(<< <<"group_id", JNum(cc.Group[i])>> >>)])>> >>
    \o << <<"address", JStr(cc.Address)>> >>
    \o OmitEmptyStr("city", cc.City)
    \o OmitEmptyStr("state", cc.State)
    \o OmitEmptyStr("zip_code", cc.Zip)
    \o OmitEmptyArr("contactnote_set",
         [i \in Indices(cc.Notes) |->
            JObj(<< <<"type", JNum(cc.Notes[i].Type)>>, <<"contents", JStr(cc.Notes[i].Contents)>> >>)])
    \o OmitEmptyArr("mediainfo_set",
         [i \in Indices(cc.Media) |->
            JObj(<< <<"type", JNum(cc.Media[i].Type)>>, <<"value", JStr(cc.Media[i].Value)>> >>)])

\* json.Marshal of the struct: its members in field order, by the struct tags
MarshalContact(cc) ==
    << <<"api_contact_id", JStr(cc.ID)>>,
       <<"full_name", JStr(cc.Name)>>,
       <<"contactgroup_set",
         JArr([i \in Indices(cc.Group) |-> JObj(<< <<"group_id", JNum(cc.Group[i])>> >>)])>> >>
    \o OmitEmptyStr("address", cc.Address)
    \o OmitEmptyStr("city", cc.City)
    \o OmitEmptyStr("state", cc.State)
    \o OmitEmptyStr("zip_code", cc.Zip)
    \o OmitEmptyArr("contactnote_set",
         [i \in Indices(cc.Notes) |->
            JObj(<< <<"type", JNum(cc.Notes[i].Type)>>, <<"contents", JStr(cc.Notes[i].Contents)>> >>)])
    \o OmitEmptyArr("mediainfo_set",
         [i \in Indices(cc.Media) |->
            JObj(<< <<"type", JNum(cc.Media[i].Type)>>, <<"value", JStr(cc.Media[i].Value)>> >>)])

Encoded(err, wire) == [err |-> err, wire |-> wire, data |-> IF err = "" THEN Render(JObj(wire)) ELSE ""]

\* a variant with a slip: the GroupID check comes first
MarshalJSONMutant(c) ==
    IF c.GroupID = 0 THEN Encoded("missing required field GroupID", <<>>)
    ELSE IF c.ID = "" THEN Encoded("missing required field ID", <<>>)
    ELSE Encoded("", MarshalContact(wireContact(c)))

\* Contact.MarshalJSON: err is "" for a nil error
MarshalJSON(c) ==
    IF c.ID = "" THEN Encoded("missing required field ID", <<>>)
    ELSE IF c.GroupID = 0 THEN Encoded("missing required field GroupID", <<>>)
    ELSE Encoded("", MarshalContact(wireContact(c)))

NoEnc == [err |-> "", wire |-> <<>>, data |-> "none"]

----------------------------------------------------------------------------
(* The contacts the encoder is given *)

ContactIDs == {"", "654A"}
GroupIDs == {0, 2}
Names == {"", "Jason Polakow"}
Addresses == {"", "123 Hana Hwy"}
Cities == {"", "Maui"}
States == {"", "HI"}
Zips == {"", "96708"}
Emails == {"", "jason@jp-australia.com"}
WorkPhones == {<<>>, <<"1", "2">>, <<"(", "-", ")", " ">>}
MobilePhones == {<<>>, <<"1", "-", "3">>}
HomePhones == {<<>>, <<"(", "8", ")", " ", "2", "-", "1">>}
NoteTexts == {"", "called"}

Contacts ==
    { Contact(id, gid, name, address, city, state, zip, email, mobile, work, home, notes) :
        id \in ContactIDs, gid \in GroupIDs, name \in Names, address \in Addresses,
        city \in Cities, state \in States, zip \in Zips, email \in Emails,
        mobile \in MobilePhones, work \in WorkPhones, home \in HomePhones,
        notes \in SeqsUpTo(NoteTexts, MaxNotes) }

----------------------------------------------------------------------------
(* Errors returned to the caller *)

Nil == [type |-> "nil", Msg |-> "", IDs |-> <<>>]
ErrDuplicate(ids) == [type |-> "ErrDuplicate", Msg |-> "", IDs |-> ids]
ErrInvalid(msg) == [type |-> "ErrInvalid", Msg |-> msg, IDs |-> <<>>]
ErrForbidden(msg) == [type |-> "ErrForbidden", Msg |-> msg, IDs |-> <<>>]
\* fmt.Errorf: an error of no exported type
Errorf(msg) == [type |-> "error", Msg |-> msg, IDs |-> <<>>]

----------------------------------------------------------------------------
(* Response bodies and their decoding *)

\* a body that is the text of a JSON value
JSONBody(v) == [json |-> TRUE, text |-> "", val |-> v, bad |-> ""]
\* a body that is not JSON, with the syntax error encoding/json reports for it
TextBody(text, bad) == [json |-> FALSE, text |-> text, val |-> JNull, bad |-> bad]

\* string(resbody)
BodyText(b) == IF b.json THEN Render(b.val) ELSE b.text

GoKind(v) ==
    CASE v.t = "str" -> "string"
      [] v.t = "num" -> "number"
      [] v.t = "arr" -> "array"
      [] v.t = "obj" -> "object"
      [] v.t = "null" -> "null"

TypeError(v) == "json: cannot unmarshal " \o GoKind(v) \o " into Go value"

\* can the JSON value be stored in a Go string / a Go []string (null stores nothing)
FitsString(v) == v.t \in {"str", "null"}
FitsStrings(v) ==
    \/ v.t = "null"
    \/ v.t = "arr" /\ \A i \in Indices(v.a) : FitsString(v.a[i])

\* the Go values stored
AsString(v) == IF v.t = "str" THEN v.s ELSE ""
AsStrings(v) == IF v.t = "arr" THEN [i \in Indices(v.a) |-> AsString(v.a[i])] ELSE <<>>

\* json.Unmarshal(body, &data) for a struct with the string fields strKeys and the
\* []string fields listKeys: the error's text, "" for a nil error
UnmarshalErr(b, strKeys, listKeys) ==
    IF ~b.json THEN b.bad
    ELSE IF b.val.t = "null" THEN ""
    ELSE IF b.val.t # "obj" THEN TypeError(b.val)
    ELSE IF \E k \in strKeys : HasKey(b.val.a, k) /\ ~FitsString(Field(b.val.a, k))
         THEN TypeError(Field(b.val.a,
                  CHOOSE k \in strKeys : HasKey(b.val.a, k) /\ ~FitsString(Field(b.val.a, k))))
    ELSE IF \E k \in listKeys : HasKey(b.val.a, k) /\ ~FitsStrings(Field(b.val.a, k))
         THEN "json: cannot unmarshal into Go value of type []string"
    ELSE ""

StringField(b, k) ==
    IF b.json /\ b.val.t = "obj" /\ HasKey(b.val.a, k) THEN AsString(Field(b.val.a, k)) ELSE ""
StringsField(b, k) ==
    IF b.json /\ b.val.t = "obj" /\ HasKey(b.val.a, k) THEN AsStrings(Field(b.val.a, k)) ELSE <<>>

\* a variant with a slip: the detail is used whenever the body decodes
newForbiddenMutant(body) ==
    IF UnmarshalErr(body, {"detail"}, {}) # ""
    THEN ErrForbidden(BodyText(body))
    ELSE ErrForbidden(StringField(body, "detail"))

newForbidden(body) ==
    IF UnmarshalErr(body, {"detail"}, {}) # "" \/ StringField(body, "detail") = ""
    THEN ErrForbidden(BodyText(body))
    ELSE ErrForbidden(StringField(body, "detail"))

LockedMsg == "Previous request was not finished or was interrupted."

mojoResponse(b) ==
    [Errors |-> StringsField(b, "errors"),
     DuplicatedAPIContactID |-> StringsField(b, "duplicated_api_contact_id")]

isError(resp) == Len(resp.Errors) >= 1

isLockedError(resp) == Len(resp.Errors) = 1 /\ resp.Errors[1] = LockedMsg

isDuplicate(resp) == isError(resp) /\ Len(resp.DuplicatedAPIContactID) > 0

\* a variant with a slip: joined with ", "
errorMsgMutant(resp) == Join(resp.Errors, ", ")

errorMsg(resp) == Join(resp.Errors, " ")

\* a variant with a slip: only the first id is kept
duplicatedIDsMutant(resp) ==
    IF ~isDuplicate(resp) THEN <<>> ELSE <<resp.DuplicatedAPIContactID[1]>>

duplicatedIDs(resp) ==
    IF ~isDuplicate(resp) THEN <<>> ELSE resp.DuplicatedAPIContactID

nonFieldErr(b) == [Errors |-> StringsField(b, "non_field_errors")]
hasErr(nf) == Len(nf.Errors) > 0
all(nf) == Join(nf.Errors, ", ")

----------------------------------------------------------------------------
(* The client *)

\* Mojo.URL is kept as <<scheme, rest>>: the string is scheme \o rest, and
\* strings.HasPrefix(domain, "http://") looks at the scheme
URLText(u) == u[1] \o u[2]

prefixHTTP(domain) ==
    IF domain[1] = "http://" \/ domain[1] = "https://" THEN URLText(domain)
    ELSE "https://" \o URLText(domain)

NilHTTP == [set |-> FALSE, Timeout |-> 0]
DefaultHTTP == [set |-> TRUE, Timeout |-> DefaultTimeout]
\* a client the caller configured, with no timeout
CustomHTTP == [set |-> TRUE, Timeout |-> 0]

NoReq == [url |-> "", body |-> "", contentType |-> "", authorization |-> "", timeout |-> 0]
NoRes == [kind |-> "none", status |-> 0, body |-> TextBody("", ""), cause |-> ""]
NoCall == [op |-> "none", contacts |-> <<>>, contactID |-> "", note |-> ""]

\* the outcomes of mj.HTTP.Do and ioutil.ReadAll
DoError(cause) == [kind |-> "doerr", status |-> 0, body |-> TextBody("", ""), cause |-> cause]
ReadError(status, cause) == [kind |-> "readerr", status |-> status, body |-> TextBody("", ""), cause |-> cause]
Response(status, body) == [kind |-> "response", status |-> status, body |-> body, cause |-> ""]

\* json.Marshal(contacts): every contact's MarshalJSON in order, the first error ends it;
\* AddContact() with no argument has contacts == nil, which json.Marshal writes as null
RECURSIVE FirstErr(_)
FirstErr(cs) ==
    IF cs = <<>> THEN ""
    ELSE IF MarshalJSON(cs[1]).err # "" THEN MarshalJSON(cs[1]).err
    ELSE FirstErr(Tail(cs))

\* a variant with a slip: only the first contact is encoded
MarshalContactsMutant(cs) ==
    IF cs = <<>> THEN [err |-> "", data |-> "null"]
    ELSE IF MarshalJSON(cs[1]).err # ""
    THEN [err |-> "json: error calling MarshalJSON for type mojo.Contact: " \o MarshalJSON(cs[1]).err,
          data |-> ""]
    ELSE [err |-> "", data |-> "[" \o MarshalJSON(cs[1]).data \o "]"]

MarshalContacts(cs) ==
    IF FirstErr(cs) # ""
    THEN [err |-> "json: error calling MarshalJSON for type mojo.Contact: " \o FirstErr(cs), data |-> ""]
    ELSE IF cs = <<>> THEN [err |-> "", data |-> "null"]
    ELSE [err |-> "", data |-> "[" \o Join([i \in Indices(cs) |-> MarshalJSON(cs[i]).data], ",") \o "]"]

\* json.Marshal of the map AddNote builds: the keys sorted
MarshalNote(contactID, nt) ==
    Render(JObj(<< <<"api_contact_id", JStr(contactID)>>, <<"contents", JStr(nt)>>,
                   <<"type", JNum(NoteType)>> >>))

\* the request post builds and hands to mj.HTTP.Do
NewRequest(m, url, reqbody) ==
    [url |-> url, body |-> reqbody, contentType |-> "application/json",
     authorization |-> "Bearer " \o m.Token,
     timeout |-> IF m.HTTP.set THEN m.HTTP.Timeout ELSE DefaultTimeout]

\* a variant of post with a slip: 400 is not told apart from the other statuses
postMutant(url, reqbody, out) ==
    IF out.kind = "doerr"
    THEN [resbody |-> TextBody("", ""),
          err |-> Errorf("mojo: POST " \o url \o " " \o reqbody \o " fail (" \o out.cause \o ")")]
    ELSE IF out.kind = "readerr"
    THEN [resbody |-> TextBody("", ""),
          err |-> Errorf("mojo: POST " \o url \o " " \o reqbody
                         \o " fail to read response (" \o out.cause \o ")")]
    ELSE IF out.status = StatusForbidden
    THEN [resbody |-> TextBody("", ""), err |-> newForbidden(out.body)]
    ELSE IF out.status # StatusOK
    THEN [resbody |-> TextBody("", ""),
          err |-> Errorf("mojo: POST " \o url \o " " \o reqbody \o " status " \o Itoa(out.status)
                         \o " with body " \o BodyText(out.body))]
    ELSE [resbody |-> out.body, err |-> Nil]

\* Mojo.post from the return of mj.HTTP.Do on: (resbody, err)
post(url, reqbody, out) ==
    IF out.kind = "doerr"
    THEN [resbody |-> TextBody("", ""),
          err |-> Errorf("mojo: POST " \o url \o " " \o reqbody \o " fail (" \o out.cause \o ")")]
    ELSE IF out.kind = "readerr"
    THEN [resbody |-> TextBody("", ""),
          err |-> Errorf("mojo: POST " \o url \o " " \o reqbody
                         \o " fail to read response (" \o out.cause \o ")")]
    ELSE IF out.status = StatusForbidden
    THEN [resbody |-> TextBody("", ""), err |-> newForbidden(out.body)]
    ELSE IF out.status = StatusBadRequest
    THEN [resbody |-> TextBody("", ""),
          err |-> ErrInvalid("POST " \o url \o " " \o reqbody \o " " \o Itoa(out.status)
                             \o " validation error " \o BodyText(out.body))]
    ELSE IF out.status # StatusOK
    THEN [resbody |-> TextBody("", ""),
          err |-> Errorf("mojo: POST " \o url \o " " \o reqbody \o " status " \o Itoa(out.status)
                         \o " with body " \o BodyText(out.body))]
    ELSE [resbody |-> out.body, err |-> Nil]

\* a variant of the chain with a slip: the validation test comes before the duplicate test
classifyContactMutant(url, reqbody, resbody) ==
    IF UnmarshalErr(resbody, {}, {"errors", "duplicated_api_contact_id"}) # ""
    THEN Errorf("mojo: POST " \o url \o " " \o reqbody \o " decoding " \o BodyText(resbody)
                \o " (" \o UnmarshalErr(resbody, {}, {"errors", "duplicated_api_contact_id"}) \o ")")
    ELSE IF isLockedError(mojoResponse(resbody))
    THEN Errorf("mojo: " \o errorMsg(mojoResponse(resbody)))
    ELSE IF isError(mojoResponse(resbody))
    THEN ErrInvalid(errorMsg(mojoResponse(resbody)))
    ELSE IF isDuplicate(mojoResponse(resbody))
    THEN ErrDuplicate(duplicatedIDs(mojoResponse(resbody)))
    ELSE Nil

\* Mojo.AddContact after post returned a body
classifyContact(url, reqbody, resbody) ==
    IF UnmarshalErr(resbody, {}, {"errors", "duplicated_api_contact_id"}) # ""
    THEN Errorf("mojo: POST " \o url \o " " \o reqbody \o " decoding " \o BodyText(resbody)
                \o " (" \o UnmarshalErr(resbody, {}, {"errors", "duplicated_api_contact_id"}) \o ")")
    ELSE IF isLockedError(mojoResponse(resbody))
    THEN Errorf("mojo: " \o errorMsg(mojoResponse(resbody)))
    ELSE IF isDuplicate(mojoResponse(resbody))
    THEN ErrDuplicate(duplicatedIDs(mojoResponse(resbody)))
    ELSE IF isError(mojoResponse(resbody))
    THEN ErrInvalid(errorMsg(mojoResponse(resbody)))
    ELSE Nil

\* Mojo.AddNote after post returned a body
classifyNote(url, reqbody, resbody) ==
    IF UnmarshalErr(resbody, {}, {"non_field_errors"}) # ""
    THEN Errorf("mojo: POST " \o url \o " " \o reqbody \o " decoding " \o reqbody
                \o " (" \o UnmarshalErr(resbody, {}, {"non_field_errors"}) \o ")")
    ELSE IF all(nonFieldErr(resbody)) # ""
    THEN ErrInvalid("POST " \o url \o " " \o reqbody \o " validation error: "
                    \o all(nonFieldErr(resbody)))
    ELSE Nil

----------------------------------------------------------------------------
(* What the caller and the remote service can supply *)

ZeroContact == Contact("", 0, "", "", "", "", "", "", <<>>, <<>>, <<>>, <<>>)

ClientContacts ==
    { Contact("654A", 2, "Jason Polakow", "", "", "", "", "", <<>>, <<>>, <<>>, <<>>),
      Contact("77B", 2, "", "", "Maui", "", "", "j@jp.com", <<"1", "-", "3">>, <<>>, <<>>, <<"called">>),
      Contact("", 2, "No ID", "", "", "", "", "", <<>>, <<>>, <<>>, <<>>),
      Contact("9C", 0, "No Group", "", "", "", "", "", <<>>, <<>>, <<>>, <<>>) }

NoteCalls == { <<"654A", "called back">>, <<"", "">> }

URLs == { <<"", "mojo.test">>, <<"http://", "localhost:8080">> }

Statuses == {StatusOK, StatusBadRequest, StatusForbidden, 500}

ErrorTexts == {LockedMsg, "All contacts should have the same group_id."}
DupTexts == {"X", "Y"}
NoteErrorTexts == {"", "Invalid api_contact_id."}

Absent == [t |-> "absent", s |-> "", n |-> 0, a |-> <<>>]
Member(key, v) == IF v = Absent THEN <<>> ELSE << <<key, v>> >>

\* answers of the contacts endpoint
ContactBodies ==
    { JSONBody(JObj(Member("duplicated_api_contact_id", d) \o Member("errors", e))) :
        d \in {Absent} \cup { JStrs(x) : x \in SeqsUpTo(DupTexts, MaxDups) },
        e \in {Absent} \cup { JStrs(x) : x \in SeqsUpTo(ErrorTexts, MaxErrors) } }

\* answers of the notes endpoint
NoteBodies ==
    { JSONBody(JObj(<< <<"non_field_errors", JStrs(x)>> >>)) : x \in SeqsUpTo(NoteErrorTexts, MaxErrors) }

\* answers with a detail, and JSON of other shapes
OtherBodies ==
    { JSONBody(JObj(<< <<"detail", JStr("Invalid access_token")>> >>)),
      JSONBody(JObj(<< <<"detail", JStr("")>> >>)),
      JSONBody(JObj(<< <<"detail", JNum(7)>> >>)),
      JSONBody(JObj(<< <<"detail", JNull>> >>)),
      JSONBody(JObj(<< <<"detail", JStr("Locked")>>, <<"errors", JStrs(<<LockedMsg>>)>> >>)),
      JSONBody(JObj(<< <<"errors", JStrs(<<"">>)>> >>)),
      JSONBody(JObj(<< <<"errors", JArr(<<JNull>>)>> >>)),
      JSONBody(JObj(<< <<"errors", JNull>>, <<"duplicated_api_contact_id", JStrs(<<"X">>)>> >>)),
      JSONBody(JObj(<< <<"errors", JNum(7)>> >>)),
      JSONBody(JObj(<< <<"errors", JStrs(<<"Bad">>)>>, <<"duplicated_api_contact_id", JStr("X")>> >>)),
      JSONBody(JObj(<< <<"non_field_errors", JStr("Invalid")>> >>)),
      JSONBody(JObj(<< <<"non_field_errors", JNull>> >>)),
      JSONBody(JNull),
      JSONBody(JArr(<<>>)),
      JSONBody(JStr("ok")) }

\* bodies that are not JSON
TextBodies ==
    { TextBody("ops", "invalid character 'o' looking for beginning of value"),
      TextBody("opssss", "invalid character 'o' looking for beginning of value"),
      TextBody("get out of here", "invalid character 'g' looking for beginning of value"),
      TextBody("", "unexpected end of JSON input") }

Bodies == ContactBodies \cup NoteBodies \cup OtherBodies \cup TextBodies

Causes == {"connection refused"}

----------------------------------------------------------------------------
(* The calls *)

\* the goroutines that call the client concurrently
Procs == 1..NumCalls

\* post's lazy default: mj.HTTP is set on first use
LazyHTTP(m) == IF m.HTTP.set THEN m ELSE [m EXCEPT !.HTTP = DefaultHTTP]

Init ==
    /\ mj \in { [URL |-> u, Token |-> "5cf3", HTTP |-> h] : u \in URLs, h \in {NilHTTP, CustomHTTP} }
    /\ pc = "idle"
    /\ call = NoCall
    /\ req = NoReq
    /\ res = NoRes
    /\ ret = Nil
    /\ sent = 0
    /\ contact = ZeroContact
    /\ enc = NoEnc
    /\ phone = <<>>
    /\ cleaned = <<>>
    /\ gpc = [p \in Procs |-> "idle"]
    /\ sawNil = [p \in Procs |-> FALSE]
    /\ via = [p \in Procs |-> NilHTTP]

\* AddContact up to mj.HTTP.Do: the encoding, and the request when it succeeds
AddContact(cs) ==
    /\ pc = "idle"
    /\ call' = [op |-> "AddContact", contacts |-> cs, contactID |-> "", note |-> ""]
    /\ res' = NoRes
    /\ IF MarshalContacts(cs).err # ""
       THEN /\ ret' = ErrInvalid(MarshalContacts(cs).err)
            /\ pc' = "done"
            /\ UNCHANGED <<mj, req, sent>>
       ELSE /\ mj' = LazyHTTP(mj)
            /\ req' = NewRequest(mj, prefixHTTP(mj.URL) \o "/api/contacts/bulk_create/",
                                 MarshalContacts(cs).data)
            /\ sent' = sent + 1
            /\ ret' = Nil
            /\ pc' = "inflight"
    /\ UNCHANGED <<contact, enc, phone, cleaned, gpc, sawNil, via>>

\* AddNote up to mj.HTTP.Do
AddNote(contactID, nt) ==
    /\ pc = "idle"
    /\ call' = [op |-> "AddNote", contacts |-> <<>>, contactID |-> contactID, note |-> nt]
    /\ res' = NoRes
    /\ mj' = LazyHTTP(mj)
    /\ req' = NewRequest(mj, prefixHTTP(mj.URL) \o "/api/notes/", MarshalNote(contactID, nt))
    /\ sent' = sent + 1
    /\ ret' = Nil
    /\ pc' = "inflight"
    /\ UNCHANGED <<contact, enc, phone, cleaned, gpc, sawNil, via>>

\* the rest of the call, from what the transport gave
Returned(out) ==
    IF post(req.url, req.body, out).err # Nil THEN post(req.url, req.body, out).err
    ELSE IF call.op = "AddContact"
    THEN classifyContact(req.url, req.body, post(req.url, req.body, out).resbody)
    ELSE classifyNote(req.url, req.body, post(req.url, req.body, out).resbody)

Complete(out) ==
    /\ pc = "inflight"
    /\ res' = out
    /\ ret' = Returned(out)
    /\ pc' = "done"
    /\ UNCHANGED <<mj, call, req, sent, contact, enc, phone, cleaned, gpc, sawNil, via>>

\* what the transport can give: an error from Do, a body that cannot be read, an answer
DoErrors == { DoError(cause) : cause \in Causes }
ReadErrors == { ReadError(status, cause) : status \in Statuses, cause \in Causes }
Responses == { Response(status, body) : status \in Statuses, body \in Bodies }

\* mj.HTTP.Do returns an error
DoFails == \E out \in DoErrors : Complete(out)

\* reading the response body fails
ReadFails == \E out \in ReadErrors : Complete(out)

\* the remote service answers
Respond == \E out \in Responses : Complete(out)

\* the caller has the result; the client is free for the next call
Return ==
    /\ pc = "done"
    /\ pc' = "idle"
    /\ call' = NoCall
    /\ req' = NoReq
    /\ res' = NoRes
    /\ ret' = Nil
    /\ sent' = 0
    /\ UNCHANGED <<mj, contact, enc, phone, cleaned, gpc, sawNil, via>>

Next ==
    \/ \E cs \in SeqsUpTo(ClientContacts, MaxContacts) : AddContact(cs)
    \/ \E nc \in NoteCalls : AddNote(nc[1], nc[2])
    \/ DoFails
    \/ ReadFails
    \/ Respond
    \/ Return

Spec == Init /\ [][Next]_vars

----------------------------------------------------------------------------
(* The encoder alone, on every contact *)

InitEncode ==
    /\ mj = [URL |-> <<"", "mojo.test">>, Token |-> "5cf3", HTTP |-> NilHTTP]
    /\ pc = "new"
    /\ call = NoCall
    /\ req = NoReq
    /\ res = NoRes
    /\ ret = Nil
    /\ sent = 0
    /\ contact \in Contacts
    /\ enc = NoEnc
    /\ phone = <<>>
    /\ cleaned = <<>>
    /\ gpc = [p \in Procs |-> "idle"]
    /\ sawNil = [p \in Procs |-> FALSE]
    /\ via = [p \in Procs |-> NilHTTP]

Marshal ==
    /\ pc = "new"
    /\ enc' = MarshalJSON(contact)
    /\ pc' = "encoded"
    /\ UNCHANGED <<mj, call, req, res, ret, sent, contact, phone, cleaned, gpc, sawNil, via>>

NextEncode == Marshal

SpecEncode == InitEncode /\ [][NextEncode]_vars

----------------------------------------------------------------------------
(* cleanPhone alone, on every phone string, and again on its own result *)

PhoneChars == {"(", ")", "-", " ", "8", "+"}

InitClean ==
    /\ mj = [URL |-> <<"", "mojo.test">>, Token |-> "5cf3", HTTP |-> NilHTTP]
    /\ pc = "raw"
    /\ call = NoCall
    /\ req = NoReq
    /\ res = NoRes
    /\ ret = Nil
    /\ sent = 0
    /\ contact = ZeroContact
    /\ enc = NoEnc
    /\ phone \in SeqsUpTo(PhoneChars, MaxPhone)
    /\ cleaned = <<>>
    /\ gpc = [p \in Procs |-> "idle"]
    /\ sawNil = [p \in Procs |-> FALSE]
    /\ via = [p \in Procs |-> NilHTTP]

Clean ==
    /\ pc = "raw"
    /\ cleaned' = <<cleanPhone(phone)>>
    /\ pc' = "cleaned"
    /\ UNCHANGED <<mj, call, req, res, ret, sent, contact, enc, phone, gpc, sawNil, via>>

CleanAgain ==
    /\ pc = "cleaned"
    /\ cleaned' = Append(cleaned, cleanPhone(cleaned[1]))
    /\ pc' = "recleaned"
    /\ UNCHANGED <<mj, call, req, res, ret, sent, contact, enc, phone, gpc, sawNil, via>>

NextClean == Clean \/ CleanAgain

SpecClean == InitClean /\ [][NextClean]_vars

----------------------------------------------------------------------------
(* Calls running concurrently on one client whose HTTP was left unset.  Each   *)
(* goroutine is in AddContact or AddNote, which reach post alike; the steps    *)
(* are the accesses post makes to mj.HTTP, which no lock or atomic orders.     *)
(* Reads and writes of the pointer are single steps, so the interleavings are  *)
(* the orders in which the accesses can take effect.                           *)

InitRace ==
    /\ mj \in { [URL |-> u, Token |-> "5cf3", HTTP |-> NilHTTP] : u \in URLs }
    /\ pc = "concurrent"
    /\ call = NoCall
    /\ req = NoReq
    /\ res = NoRes
    /\ ret = Nil
    /\ sent = 0
    /\ contact = ZeroContact
    /\ enc = NoEnc
    /\ phone = <<>>
    /\ cleaned = <<>>
    /\ gpc = [p \in Procs |-> "idle"]
    /\ sawNil = [p \in Procs |-> FALSE]
    /\ via = [p \in Procs |-> NilHTTP]

RaceFrame == <<pc, call, req, res, ret, sent, contact, enc, phone, cleaned>>

\* the call starts: the body is encoded and the request built, all local to the goroutine
Enter(p) ==
    /\ gpc[p] = "idle"
    /\ gpc' = [gpc EXCEPT ![p] = "check"]
    /\ UNCHANGED <<mj, sawNil, via, RaceFrame>>

\* if mj.HTTP == nil: the read
CheckHTTP(p) ==
    /\ gpc[p] = "check"
    /\ sawNil' = [sawNil EXCEPT ![p] = ~mj.HTTP.set]
    /\ gpc' = [gpc EXCEPT ![p] = IF mj.HTTP.set THEN "do" ELSE "set"]
    /\ UNCHANGED <<mj, via, RaceFrame>>

\* mj.HTTP = &http.Client{Timeout: 3 * time.Second}: the write
SetHTTP(p) ==
    /\ gpc[p] = "set"
    /\ mj' = [mj EXCEPT !.HTTP = DefaultHTTP]
    /\ gpc' = [gpc EXCEPT ![p] = "do"]
    /\ UNCHANGED <<sawNil, via, RaceFrame>>

\* mj.HTTP.Do(req): mj.HTTP is read again and the request sent through it
Do(p) ==
    /\ gpc[p] = "do"
    /\ via' = [via EXCEPT ![p] = mj.HTTP]
    /\ gpc' = [gpc EXCEPT ![p] = "inflight"]
    /\ UNCHANGED <<mj, sawNil, RaceFrame>>

\* the transport returns and the call returns to its caller
Finish(p) ==
    /\ gpc[p] = "inflight"
    /\ gpc' = [gpc EXCEPT ![p] = "done"]
    /\ UNCHANGED <<mj, sawNil, via, RaceFrame>>

\* the goroutine is free for its next call
Leave(p) ==
    /\ gpc[p] = "done"
    /\ gpc' = [gpc EXCEPT ![p] = "idle"]
    /\ sawNil' = [sawNil EXCEPT ![p] = FALSE]
    /\ via' = [via EXCEPT ![p] = NilHTTP]
    /\ UNCHANGED <<mj, RaceFrame>>

NextRace ==
    \E p \in Procs :
        \/ Enter(p)
        \/ CheckHTTP(p)
        \/ SetHTTP(p)
        \/ Do(p)
        \/ Finish(p)
        \/ Leave(p)

SpecRace == InitRace /\ [][NextRace]_vars

----------------------------------------------------------------------------
(* Properties *)

\* the call has returned after the remote service answered with this status
Answered(op, status) ==
    /\ pc = "done"
    /\ call.op = op
    /\ res.kind = "response"
    /\ res.status = status

\* the answer's body decodes into the struct with these []string fields
Decodes(listKeys) == UnmarshalErr(res.body, {}, listKeys) = ""

RespErrors == StringsField(res.body, "errors")
RespDups == StringsField(res.body, "duplicated_api_contact_id")
RespNoteErrors == StringsField(res.body, "non_field_errors")

C1_Expected ==
    IF Len(RespErrors) = 1 /\ RespErrors[1] = LockedMsg THEN "error"
    ELSE IF RespErrors # <<>> /\ RespDups # <<>> THEN "ErrDuplicate"
    ELSE IF RespErrors # <<>> THEN "ErrInvalid"
    ELSE "nil"

\* C1: for a 200 answer whose body decodes, AddContact returns the one outcome the ordered
\* chain picks: Locked (an untyped error) when errors is exactly the locked message, even
\* with duplicates listed; else ErrDuplicate when errors and duplicated_api_contact_id are
\* both non-empty; else ErrInvalid when errors is non-empty; else nil. So the result is nil
\* exactly when errors is empty.
C1_ClassifierChain ==
    (Answered("AddContact", StatusOK) /\ Decodes({"errors", "duplicated_api_contact_id"}))
    => /\ ret.type = C1_Expected
       /\ (ret = Nil) <=> (RespErrors = <<>>)

\* a locked answer that also lists duplicates is returned as the untyped locked error
C1_Witness ==
    /\ Answered("AddContact", StatusOK)
    /\ RespErrors = <<LockedMsg>>
    /\ RespDups # <<>>
    /\ ret = Errorf("mojo: " \o LockedMsg)

\* C2: post dispatches on the status alone: 403 gives an ErrForbidden; 400 an ErrInvalid
\* with the request URL, the request body and the raw response body; any other status but
\* 200 an untyped error with the status code and the raw response body; only a 200 answer
\* reaches classification, so only a 200 answer can give nil or ErrDuplicate.
C2_StatusDispatch ==
    (pc = "done" /\ res.kind = "response")
    => /\ res.status = StatusForbidden => ret.type = "ErrForbidden"
       /\ res.status = StatusBadRequest =>
            ret = ErrInvalid("POST " \o req.url \o " " \o req.body \o " 400 validation error "
                             \o BodyText(res.body))
       /\ res.status \notin {StatusOK, StatusForbidden, StatusBadRequest} =>
            ret = Errorf("mojo: POST " \o req.url \o " " \o req.body \o " status "
                         \o Itoa(res.status) \o " with body " \o BodyText(res.body))
       /\ ret.type \in {"nil", "ErrDuplicate"} => res.status = StatusOK
       /\ res.status = StatusOK => ret.type # "ErrForbidden"

\* a 400 answer whose body lists errors and duplicates is an ErrInvalid all the same
C2_Witness ==
    /\ Answered("AddContact", StatusBadRequest)
    /\ RespErrors # <<>>
    /\ RespDups # <<>>
    /\ ret.type = "ErrInvalid"

\* the body is a JSON object whose "detail" is a non-empty string
HasDetail(b) ==
    /\ b.json
    /\ b.val.t = "obj"
    /\ \E i \in Indices(b.val.a) :
          b.val.a[i][1] = "detail" /\ b.val.a[i][2].t = "str" /\ b.val.a[i][2].s # ""

DetailOf(b) == b.val.a[CHOOSE i \in Indices(b.val.a) : b.val.a[i][1] = "detail"][2].s

\* C3: on status 403 the ErrForbidden message is the body's detail when the body is a
\* JSON object with a non-empty detail string, and the raw body verbatim otherwise.
C3_ForbiddenMessage ==
    (pc = "done" /\ res.kind = "response" /\ res.status = StatusForbidden)
    => ret = ErrForbidden(IF HasDetail(res.body) THEN DetailOf(res.body) ELSE BodyText(res.body))

\* a 403 whose body has an empty detail carries the raw body
C3_Witness ==
    /\ pc = "done"
    /\ res.kind = "response"
    /\ res.status = StatusForbidden
    /\ res.body = JSONBody(JObj(<< <<"detail", JStr("")>> >>))
    /\ ret = ErrForbidden("{\"detail\":\"\"}")

\* C4: on status 200 with a body that is not JSON, AddContact returns the untyped error
\* "mojo: decoding response body (<parse error>)".
C4_DecodeMessage ==
    (Answered("AddContact", StatusOK) /\ ~res.body.json)
    => ret = Errorf("mojo: decoding response body (" \o res.body.bad \o ")")

\* MarshalJSON has returned
Encoded1 == pc = "encoded"
EncodedOK == pc = "encoded" /\ enc.err = ""

\* C5: encoding fails with "missing required field ID" for every contact with an empty
\* ID (also when GroupID is 0 too), with "missing required field GroupID" for every
\* contact with an ID and GroupID 0, and succeeds for every other contact.
C5_RequiredFields ==
    Encoded1
    => /\ contact.ID = "" => enc.err = "missing required field ID"
       /\ (contact.ID # "" /\ contact.GroupID = 0) => enc.err = "missing required field GroupID"
       /\ (contact.ID # "" /\ contact.GroupID # 0) => (enc.err = "" /\ enc.wire # <<>>)

\* a contact with neither ID nor GroupID is refused for its ID
C5_Witness ==
    /\ Encoded1
    /\ contact.ID = ""
    /\ contact.GroupID = 0
    /\ enc.err = "missing required field ID"

\* the entries of mediainfo_set in the wire output (none when the member is absent)
WireMedia ==
    IF HasKey(enc.wire, "mediainfo_set") THEN Field(enc.wire, "mediainfo_set").a ELSE <<>>
WireNotes ==
    IF HasKey(enc.wire, "contactnote_set") THEN Field(enc.wire, "contactnote_set").a ELSE <<>>
WireMediaTypes == [i \in Indices(WireMedia) |-> Field(WireMedia[i].a, "type").n]
HasMedia(type) == \E i \in Indices(WireMedia) : WireMediaTypes[i] = type

\* is there an empty string or an empty array anywhere in the value
RECURSIVE HasPlaceholder(_)
HasPlaceholder(v) ==
    \/ v.t = "str" /\ v.s = ""
    \/ v.t = "arr" /\ (v.a = <<>> \/ \E i \in Indices(v.a) : HasPlaceholder(v.a[i]))
    \/ v.t = "obj" /\ \E i \in Indices(v.a) : HasPlaceholder(v.a[i][2])

RECURSIVE HasEmptyArray(_)
HasEmptyArray(v) ==
    \/ v.t = "arr" /\ (v.a = <<>> \/ \E i \in Indices(v.a) : HasEmptyArray(v.a[i]))
    \/ v.t = "obj" /\ \E i \in Indices(v.a) : HasEmptyArray(v.a[i][2])

\* every optional member and every media entry is there exactly when its source is set
C6_OptionalPresence ==
    /\ HasKey(enc.wire, "address") <=> contact.Address # ""
    /\ HasKey(enc.wire, "city") <=> contact.City # ""
    /\ HasKey(enc.wire, "state") <=> contact.State # ""
    /\ HasKey(enc.wire, "zip_code") <=> contact.Zip # ""
    /\ HasKey(enc.wire, "contactnote_set") <=> contact.Notes # <<>>
    /\ HasKey(enc.wire, "mediainfo_set") <=>
          (contact.WorkPhone # <<>> \/ contact.MobilePhone # <<>>
             \/ contact.HomePhone # <<>> \/ contact.Email # "")
    /\ HasMedia(TypeWork) <=> contact.WorkPhone # <<>>
    /\ HasMedia(TypeMobile) <=> contact.MobilePhone # <<>>
    /\ HasMedia(TypeHome) <=> contact.HomePhone # <<>>
    /\ HasMedia(TypeEmail) <=> contact.Email # ""

\* a phone that consists of the characters cleanPhone removes
OnlyPunctuation(ph) == ph # <<>> /\ \A i \in Indices(ph) : ph[i] \in {"(", ")", "-", " "}

\* C6 as stated: every wire field, full_name among them, is in the output exactly when
\* its source is non-empty, and the output holds no empty string and no empty array.
C6_AsStated ==
    EncodedOK
    => /\ C6_OptionalPresence
       /\ HasKey(enc.wire, "full_name") <=> contact.Name # ""
       /\ ~HasPlaceholder(JObj(enc.wire))

\* C6, amended: address, city, state, zip_code, contactnote_set, mediainfo_set and each
\* media entry are in the output exactly when their source is non-empty, and the output
\* holds no empty array; full_name is always in the output, as "" when Name is empty; the
\* only other empty strings are the value of a phone made of removed characters alone and
\* the contents of an empty note.
C6_PresenceAmended ==
    EncodedOK
    => /\ C6_OptionalPresence
       /\ HasKey(enc.wire, "full_name") /\ Field(enc.wire, "full_name") = JStr(contact.Name)
       /\ ~HasEmptyArray(JObj(enc.wire))
       /\ \A k \in {"api_contact_id", "address", "city", "state", "zip_code"} :
             HasKey(enc.wire, k) => Field(enc.wire, k).s # ""
       /\ \A i \in Indices(WireMedia) :
             Field(WireMedia[i].a, "value").s = "" =>
                \/ WireMediaTypes[i] = TypeWork /\ OnlyPunctuation(contact.WorkPhone)
                \/ WireMediaTypes[i] = TypeMobile /\ OnlyPunctuation(contact.MobilePhone)
                \/ WireMediaTypes[i] = TypeHome /\ OnlyPunctuation(contact.HomePhone)
       /\ \A i \in Indices(WireNotes) :
             Field(WireNotes[i].a, "contents").s = "" => contact.Notes[i] = ""

\* a contact with no name, no address and no notes but a city: full_name is "" in the
\* output, city is there, address and contactnote_set are not
C6_Witness ==
    /\ EncodedOK
    /\ contact.Name = ""
    /\ contact.Address = ""
    /\ contact.City # ""
    /\ contact.Notes = <<>>
    /\ Field(enc.wire, "full_name") = JStr("")
    /\ HasKey(enc.wire, "city")
    /\ ~HasKey(enc.wire, "address")
    /\ ~HasKey(enc.wire, "contactnote_set")

\* C7: mediainfo_set lists exactly the contact methods that are set, each once, in
\* strictly increasing type order work(1), mobile(2), home(3), email(4); the member is
\* absent when none is set.
C7_MediaOrder ==
    EncodedOK
    => /\ \A i, j \in Indices(WireMediaTypes) : i < j => WireMediaTypes[i] < WireMediaTypes[j]
       /\ { WireMediaTypes[i] : i \in Indices(WireMediaTypes) } =
            (IF contact.WorkPhone # <<>> THEN {1} ELSE {})
            \cup (IF contact.MobilePhone # <<>> THEN {2} ELSE {})
            \cup (IF contact.HomePhone # <<>> THEN {3} ELSE {})
            \cup (IF contact.Email # "" THEN {4} ELSE {})
       /\ (contact.WorkPhone = <<>> /\ contact.MobilePhone = <<>>
             /\ contact.HomePhone = <<>> /\ contact.Email = "")
          => ~HasKey(enc.wire, "mediainfo_set")

\* work unset, the other three set: mobile, home, email in that order
C7_Witness ==
    /\ EncodedOK
    /\ contact.WorkPhone = <<>>
    /\ contact.MobilePhone # <<>>
    /\ contact.HomePhone # <<>>
    /\ contact.Email # ""
    /\ WireMediaTypes = <<2, 3, 4>>

\* C8: an ErrDuplicate from a 200 answer carries the strings of duplicated_api_contact_id,
\* all of them, in the order of the answer.
C8_DuplicateIDs ==
    (Answered("AddContact", StatusOK) /\ ret.type = "ErrDuplicate")
    => /\ Len(ret.IDs) = Len(RespDups)
       /\ \A i \in Indices(RespDups) : ret.IDs[i] = RespDups[i]

\* the answer lists Y before X, and so does the error
C8_Witness ==
    /\ Answered("AddContact", StatusOK)
    /\ RespDups = <<"Y", "X">>
    /\ ret = ErrDuplicate(<<"Y", "X">>)

\* the strings with one space between neighbours
RECURSIVE SpaceJoined(_)
SpaceJoined(ss) ==
    IF ss = <<>> THEN "" ELSE IF Len(ss) = 1 THEN ss[1] ELSE ss[1] \o " " \o SpaceJoined(Tail(ss))

\* C9: an ErrInvalid from a 200 answer to AddContact has as message the entries of errors
\* in the order received, with a single space between them.
C9_InvalidMessage ==
    (Answered("AddContact", StatusOK) /\ ret.type = "ErrInvalid")
    => /\ RespErrors # <<>>
       /\ ret.Msg = SpaceJoined(RespErrors)

\* two errors and no duplicates
C9_Witness ==
    /\ Answered("AddContact", StatusOK)
    /\ Len(RespErrors) = 2
    /\ RespErrors[1] # RespErrors[2]
    /\ ret = ErrInvalid(RespErrors[1] \o " " \o RespErrors[2])

\* C10: for a 200 answer to AddNote: when the body decodes, a non-empty non_field_errors
\* gives an ErrInvalid whose message has the request URL, the request body and the joined
\* messages, and an empty or absent one gives nil; when the body does not decode, an
\* untyped error.
C10_NoteOutcome ==
    Answered("AddNote", StatusOK)
    => IF Decodes({"non_field_errors"})
       THEN IF RespNoteErrors # <<>>
            THEN ret = ErrInvalid("POST " \o req.url \o " " \o req.body
                                  \o " validation error: " \o Join(RespNoteErrors, ", "))
            ELSE ret = Nil
       ELSE ret.type = "error"

\* the characters of the phone that are none of ( ) - and space, in their order
RECURSIVE Kept(_)
Kept(ph) ==
    IF ph = <<>> THEN <<>>
    ELSE IF Head(ph) \in {"(", ")", "-", " "} THEN Kept(Tail(ph))
    ELSE <<Head(ph)>> \o Kept(Tail(ph))

\* C11: cleanPhone removes every '(', ')', '-' and space wherever it stands and leaves
\* the other characters in their order; cleaning its result again returns it unchanged.
C11_CleanPhone ==
    /\ Len(cleaned) >= 1 =>
          /\ \A i \in Indices(cleaned[1]) : cleaned[1][i] \notin {"(", ")", "-", " "}
          /\ cleaned[1] = Kept(phone)
    /\ Len(cleaned) >= 2 => cleaned[2] = cleaned[1]

\* "(8) " is cleaned to "8", and "8" to itself
C11_Witness ==
    /\ pc = "recleaned"
    /\ phone = <<"(", "8", ")", " ">>
    /\ cleaned = << <<"8">>, <<"8">> >>

\* C12: concurrent calls on a client whose HTTP was left unset never access mj.HTTP in
\* conflict: no two calls both find it nil (and so both write it), no call is about to
\* write it while another is about to read or write it, and every request is sent
\* through a non-nil handle.
C12_NoConflictingAccess ==
    /\ \A p, q \in Procs : (p # q) => ~(sawNil[p] /\ sawNil[q])
    /\ \A p, q \in Procs : (p # q) => ~(gpc[p] = "set" /\ gpc[q] \in {"check", "set", "do"})
    /\ \A p \in Procs : gpc[p] \in {"inflight", "done"} => via[p].set

\* the contacts of the call lack no ID and no GroupID
AllComplete == \A i \in Indices(call.contacts) : call.contacts[i].ID # "" /\ call.contacts[i].GroupID # 0

\* the JSON array of the encodings of the call's contacts, in the caller's order
ArrayOfContacts ==
    "[" \o Join([i \in Indices(call.contacts) |-> MarshalJSON(call.contacts[i]).data], ",") \o "]"

====
